---- MODULE Spec2Model ----
(***************************************************************************)
(* Model of cmd/mountlib/rc.go: the remote-control handlers mount/mount,   *)
(* mount/unmount, mount/types and mount/listmounts, with the two package   *)
(* level maps mountFns and liveMounts and their mutexes.  Every handler is *)
(* run by a goroutine of the rc server; a goroutine's position in a        *)
(* handler is pc[t], named after the source line it is about to execute.   *)
(***************************************************************************)
EXTENDS Integers, Sequences, FiniteSets, TLC

(***************************************************************************)
(* Bounds of the model.                                                    *)
(***************************************************************************)
\* number of handler / AddRc calls in one behaviour, one call at a time
MaxOps == 3

\* number of handler / AddRc calls in one behaviour of concurrent calls
MaxConcurrentOps == 3

\* goroutines that serve calls concurrently
Threads == {1, 2}

\* mount points the callers name
MountPoints == {"/mnt/a", "/mnt/b"}

\* names under which mount functions are registered or asked for
MountTypeNames == {"mount", "cmount", "mount2", "nfsmount"}

\* mount functions (values of type MountFn) that AddRc is given
MountFnValues == {"fnA", "fnB"}

\* values of the "fs" parameter: the first resolves, the second does not
FsParams == {"remoteA:", "nosuch:"}

\* the mount functions the mount packages register from their init functions
InitMountFn == "fnA"

(***************************************************************************)
(* Values.                                                                 *)
(***************************************************************************)
\* the nil MountFn / the nil error / a key missing from rc.Params
Nil == "nil"
\* the nil UnmountFn; the others are numbered from 1
NilUnmountFn == 0
Absent == "absent"
NoThread == 0

ErrMissingParameter == "Didn't find key in input"
ErrGetFs == "didn't find section in config file"
ErrMount == "mount failed"
ErrInvalidMountType == "Mount Option specified is not registered, or is invalid"
ErrMountNotFound == "mount not found"
\* a call of a nil func value ends the handler with a run-time panic
Panic == "panic: nil func call"

\* the MountInfo zero value of a goroutine that holds none
NoMountInfo == [unmountFn |-> NilUnmountFn, MountPoint |-> "", MountedOn |-> 0, Fs |-> ""]

(***************************************************************************)
(* The calls explored.                                                     *)
(***************************************************************************)
\* The calls of a behaviour: the values of the parameters mountPoint,
\* mountType and fs, the arguments of AddRc, the number of calls, and whether
\* a call can start while another goroutine is inside a call.
Calls ==
    [mountPoints |-> MountPoints \cup {Absent},
     mountTypes |-> MountTypeNames \cup {"", Absent},
     fs |-> FsParams,
     names |-> MountTypeNames,
     fns |-> MountFnValues,
     registered |-> SUBSET MountTypeNames,
     ops |-> MaxOps,
     concurrent |-> FALSE]

ConcurrentCalls ==
    [mountPoints |-> MountPoints,
     mountTypes |-> {Absent, "mount2"},
     fs |-> {"remoteA:"},
     names |-> {"mount"},
     fns |-> {"fnB"},
     registered |-> {{"mount2"}},
     ops |-> MaxConcurrentOps,
     concurrent |-> TRUE]

\* errors an unmountFn can return
UnmountErrors == {"EBUSY", "EPERM"}

(***************************************************************************)
(* Go maps: a map is a function on the set of its keys.                    *)
(***************************************************************************)
EmptyMap == [k \in {} |-> Nil]

\* m[k] = v
MapPut(m, k, v) == [x \in (DOMAIN m) \cup {k} |-> IF x = k THEN v ELSE m[x]]

\* delete(m, k)
MapDelete(m, k) == [x \in (DOMAIN m) \ {k} |-> m[x]]

\* v, ok := m[k]
MapHas(m, k) == k \in DOMAIN m

\* m[k] of a map of funcs: the zero value nil for a missing key
MapGetFn(m, k) == IF k \in DOMAIN m THEN m[k] ELSE Nil

\* the orders in which a range over the map can visit its keys
RangeOrders(m) ==
    LET n == Cardinality(DOMAIN m)
    IN  {s \in [1..n -> DOMAIN m] : \A i, j \in 1..n : i # j => s[i] # s[j]}

(***************************************************************************)
(* sort.Strings: byte-wise lexicographic order.                            *)
(***************************************************************************)
Bytes(s) ==
    CASE s = "mount"    -> <<109, 111, 117, 110, 116>>
      [] s = "cmount"   -> <<99, 109, 111, 117, 110, 116>>
      [] s = "mount2"   -> <<109, 111, 117, 110, 116, 50>>
      [] s = "nfsmount" -> <<110, 102, 115, 109, 111, 117, 110, 116>>

RECURSIVE BytesLess(_, _)
BytesLess(a, b) ==
    IF b = <<>> THEN FALSE
    ELSE IF a = <<>> THEN TRUE
    ELSE IF Head(a) # Head(b) THEN Head(a) < Head(b)
    ELSE BytesLess(Tail(a), Tail(b))

StringLess(a, b) == BytesLess(Bytes(a), Bytes(b))

RECURSIVE InsertSorted(_, _)
InsertSorted(x, s) ==
    IF s = <<>> THEN <<x>>
    ELSE IF StringLess(Head(s), x) THEN <<Head(s)>> \o InsertSorted(x, Tail(s))
    ELSE <<x>> \o s

RECURSIVE SortStrings(_)
SortStrings(s) ==
    IF s = <<>> THEN <<>> ELSE InsertSorted(Head(s), SortStrings(Tail(s)))

(***************************************************************************)
(* State.                                                                  *)
(***************************************************************************)
VARIABLES
    mountFns,         \* map[string]MountFn
    mountFnsMutex,    \* the goroutine that holds mountFnsMutex, or NoThread
    liveMounts,       \* map[string]MountInfo
    liveMountsMutex,  \* the goroutine that holds liveMountsMutex, or NoThread
    pc,               \* pc[t]: where goroutine t stands
    op,               \* op[t]: the function goroutine t runs
    in,               \* in[t]: the rc.Params of the running call
    local,            \* local[t]: the local variables of the running call
    ret,              \* ret[t]: what the call of goroutine t returns
    mounts,           \* the mounts the mount functions made, by unmountFn
    clock,            \* what time.Now() returns next
    started,          \* calls started so far
    crashed,          \* the runtime stopped the process with a fatal error
    trace,            \* trace[t]: what the running call did so far
    lastOp            \* lastOp[p]: how the last call that used liveMounts[p] left it

vars == <<mountFns, mountFnsMutex, liveMounts, liveMountsMutex, pc, op, in,
          local, ret, mounts, clock, started, crashed, trace, lastOp>>

NoParams == [mountPoint |-> Absent, mountType |-> Absent, fs |-> Absent]

NoLocals ==
    [mountUtilName |-> "", mountFunction |-> Nil, mountPoint |-> "",
     mountType |-> "", fdst |-> Nil, unmountFn |-> NilUnmountFn, err |-> Nil,
     mountInfo |-> NoMountInfo, mountTypes |-> <<>>]

\* out == nil is payload = FALSE
NoReturn == [payload |-> FALSE, list |-> <<>>, err |-> Nil]

\* called, calledAs: the mount function invoked and the name it was found
\* under; unmountCalls: unmountFn invocations; wrote: liveMounts was written;
\* fnsStable: no AddRc was inside its locked region during the call
NoTrace == [called |-> Nil, calledAs |-> "", unmountCalls |-> 0,
            wrote |-> FALSE, fnsStable |-> TRUE]

\* The handlers are served after the init functions of the mount packages
\* that are compiled in have called AddRc: any set of names is registered.
InitWith(D) ==
    /\ \E names \in D.registered : mountFns = [n \in names |-> InitMountFn]
    /\ mountFnsMutex = NoThread
    /\ liveMounts = EmptyMap
    /\ liveMountsMutex = NoThread
    /\ pc = [t \in Threads |-> "idle"]
    /\ op = [t \in Threads |-> "none"]
    /\ in = [t \in Threads |-> NoParams]
    /\ local = [t \in Threads |-> NoLocals]
    /\ ret = [t \in Threads |-> NoReturn]
    /\ mounts = <<>>
    /\ clock = 1
    /\ started = 0
    /\ crashed = FALSE
    /\ trace = [t \in Threads |-> NoTrace]
    /\ lastOp = [p \in MountPoints |-> "none"]

Init == InitWith(Calls)

InitConcurrent == InitWith(ConcurrentCalls)

(***************************************************************************)
(* Helpers of the actions.                                                 *)
(***************************************************************************)
\* faulty variant: Lock returns although the mutex is held
MutexFreeAlways(mutex) == TRUE

\* sync.Mutex.Lock returns only when nobody holds the mutex
MutexFree(mutex) == mutex = NoThread

\* faulty variant: the Unlock is missing
MutexUnlockMissing(mutex) == mutex

\* sync.Mutex.Unlock: nobody holds the mutex
MutexUnlock(mutex) == NoThread

Running(t) == pc[t] # "idle"

Overlaps(t) == \E u \in Threads \ {t} : Running(u)

\* a call is served by a goroutine that runs none: the first of them
CanStart(t, D) ==
    /\ ~crashed
    /\ ~Running(t)
    /\ \A u \in Threads : u < t => Running(u)
    /\ started < D.ops
    /\ Overlaps(t) => D.concurrent

At(t, p) == ~crashed /\ pc[t] = p

\* the other goroutines that stand inside AddRc, the map write not yet done
WriterOf(t) == {u \in Threads \ {t} : pc[u] = "AddRc39"}

\* a call of function o with parameters params starts
Begin(t, o, params) ==
    started' = started + 1

\* goroutine t, in function o with parameters params, goes on to line p
\* with locals l and trace tr
StepIn(t, o, params, p, l, tr) ==
    /\ pc' = [pc EXCEPT ![t] = p]
    /\ op' = [op EXCEPT ![t] = o]
    /\ in' = [in EXCEPT ![t] = params]
    /\ local' = [local EXCEPT ![t] = l]
    /\ trace' = [trace EXCEPT ![t] = tr]
    /\ UNCHANGED ret

Step(t, p, l, tr) == StepIn(t, op[t], in[t], p, l, tr)

\* goroutine t, in function o called with params, executes a return of r
ReturnFrom(t, o, params, l, tr, r) ==
    /\ pc' = [pc EXCEPT ![t] = "return"]
    /\ op' = [op EXCEPT ![t] = o]
    /\ in' = [in EXCEPT ![t] = params]
    /\ local' = [local EXCEPT ![t] = l]
    /\ trace' = [trace EXCEPT ![t] = tr]
    /\ ret' = [ret EXCEPT ![t] = r]

Return(t, r) == ReturnFrom(t, op[t], in[t], local[t], trace[t], r)

\* what a step inside a call leaves alone
Frame == <<started>>

ReturnErr(e) == [NoReturn EXCEPT !.err = e]
ReturnList(list) == [payload |-> TRUE, list |-> list, err |-> Nil]

\* the trace of a call that starts
StartTrace(t) == [NoTrace EXCEPT !.fnsStable = WriterOf(t) = {}]

(***************************************************************************)
(* AddRc (lines 36-41).                                                    *)
(***************************************************************************)
AddRcCall(t, D) ==
    /\ CanStart(t, D)
    /\ Begin(t, "AddRc", NoParams)
    /\ \E name \in D.names, f \in D.fns :
          StepIn(t, "AddRc", NoParams, "AddRc37",
               [NoLocals EXCEPT !.mountUtilName = name, !.mountFunction = f],
               StartTrace(t))
    /\ UNCHANGED <<mountFns, mountFnsMutex, liveMounts, liveMountsMutex, mounts,
                   clock, crashed, lastOp>>

\* line 37: mountFnsMutex.Lock()
AddRc37(t) ==
    /\ At(t, "AddRc37")
    /\ MutexFree(mountFnsMutex)
    /\ mountFnsMutex' = t
    /\ pc' = [pc EXCEPT ![t] = "AddRc39"]
    /\ trace' = [u \in Threads |->
                    IF u # t /\ Running(u)
                    THEN [trace[u] EXCEPT !.fnsStable = FALSE] ELSE trace[u]]
    /\ UNCHANGED <<mountFns, liveMounts, liveMountsMutex, op, in, local,
                   ret, mounts, clock, crashed, lastOp>>
    /\ UNCHANGED Frame

\* faulty variant: a name that is registered keeps its mount function
AddRcStoreIfAbsent(fns, name, f) == IF MapHas(fns, name) THEN fns ELSE MapPut(fns, name, f)

\* line 39: mountFns[mountUtilName] = mountFunction
AddRcStore(fns, name, f) == MapPut(fns, name, f)

\* lines 39-40: the write, mountFnsMutex.Unlock(), return
AddRc39(t) ==
    /\ At(t, "AddRc39")
    /\ mountFns' = AddRcStore(mountFns, local[t].mountUtilName, local[t].mountFunction)
    /\ mountFnsMutex' = MutexUnlock(mountFnsMutex)
    /\ Return(t, NoReturn)
    /\ UNCHANGED <<liveMounts, liveMountsMutex, mounts, clock, crashed, lastOp>>
    /\ UNCHANGED Frame

(***************************************************************************)
(* mountRc (lines 69-112).                                                 *)
(***************************************************************************)
\* a read of mountFns[k] that takes no lock: next to a goroutine inside AddRc
\* it is a data race, and sees the map before or after that write
FnsReads(t, k) ==
    {MapGetFn(mountFns, k)} \cup
    {local[u].mountFunction : u \in {w \in WriterOf(t) : local[w].mountUtilName = k}}

\* the lines of mountRc that read mountFns
FnsReadLines == {"mountRc78", "mountRc80", "mountRc82", "mountRc93", "mountRc94"}

\* the runtime may detect the race: "fatal error: concurrent map read and
\* map write" ends the process
FatalMapRace(t) ==
    /\ ~crashed
    /\ pc[t] \in FnsReadLines
    /\ WriterOf(t) # {}
    /\ crashed' = TRUE
    /\ UNCHANGED <<mountFns, mountFnsMutex, liveMounts, liveMountsMutex, pc, op,
                   in, local, ret, mounts, clock, trace, lastOp>>
    /\ UNCHANGED Frame

\* in.GetString(key): the value, and an error when the key is missing
GetStringErr(params, key) == IF params[key] = Absent THEN ErrMissingParameter ELSE Nil
GetStringValue(params, key) == IF params[key] = Absent THEN "" ELSE params[key]

\* faulty variant: the mountType given is ignored
NoMountTypeGivenAlways(params) == TRUE

\* line 77: err != nil || mountType == ""
NoMountTypeGiven(params) ==
    GetStringErr(params, "mountType") # Nil \/ GetStringValue(params, "mountType") = ""

\* faulty variant: the error of rc.GetFs is dropped
GetFsErrNever(params) == Nil

\* rc.GetFs(in): the Fs the "fs" parameter names, or an error
GetFsErr(params) ==
    IF params.fs = Absent THEN ErrMissingParameter
    ELSE IF params.fs = "remoteA:" THEN Nil
    ELSE ErrGetFs

\* fdst.Name(): the remote's name, without the colon
FsName(fdst) == IF fdst = "remoteA:" THEN "remoteA" ELSE "local"

\* lines 88-91, with the mount type chosen: return the error of rc.GetFs, or
\* go on to line 93
mountRc88(t, params, l, tr) ==
    IF GetFsErr(params) # Nil
    THEN ReturnFrom(t, "mountRc", params, l, tr, ReturnErr(GetFsErr(params)))
    ELSE StepIn(t, "mountRc", params, "mountRc93", [l EXCEPT !.fdst = params.fs], tr)

\* lines 69-77, and 88-91 when a mount type is given
MountRcCall(t, D) ==
    /\ CanStart(t, D)
    /\ \E mp \in D.mountPoints, mt \in D.mountTypes, f \in D.fs :
          LET params == [mountPoint |-> mp, mountType |-> mt, fs |-> f]
              l == [NoLocals EXCEPT !.mountPoint = GetStringValue(params, "mountPoint"),
                                    !.mountType = GetStringValue(params, "mountType")]
          IN  /\ Begin(t, "mountRc", params)
              /\ IF GetStringErr(params, "mountPoint") # Nil
                 THEN ReturnFrom(t, "mountRc", params, NoLocals, StartTrace(t),
                                 ReturnErr(GetStringErr(params, "mountPoint")))
                 ELSE IF NoMountTypeGiven(params)
                 THEN StepIn(t, "mountRc", params, "mountRc78", l, StartTrace(t))
                 ELSE mountRc88(t, params, l, StartTrace(t))
    /\ UNCHANGED <<mountFns, mountFnsMutex, liveMounts, liveMountsMutex, mounts,
                   clock, crashed, lastOp>>

\* faulty variant: "cmount" is probed before "mount"
ProbeOrderSwapped == <<"cmount", "mount", "mount2">>

\* lines 78, 80, 82: the names probed when no mount type is given
ProbeOrder == <<"mount", "cmount", "mount2">>

\* lines 78-84, one probe: mountFns[name] != nil selects name
Probe(t, line, name, next) ==
    /\ At(t, line)
    /\ \E f \in FnsReads(t, name) :
          IF f # Nil
          THEN mountRc88(t, in[t], [local[t] EXCEPT !.mountType = name], trace[t])
          ELSE next
    /\ UNCHANGED <<mountFns, mountFnsMutex, liveMounts, liveMountsMutex,
                   mounts, clock, crashed, lastOp>>
    /\ UNCHANGED Frame

mountRc78(t) ==
    Probe(t, "mountRc78", ProbeOrder[1], Step(t, "mountRc80", local[t], trace[t]))
mountRc80(t) ==
    Probe(t, "mountRc80", ProbeOrder[2], Step(t, "mountRc82", local[t], trace[t]))
mountRc82(t) ==
    Probe(t, "mountRc82", ProbeOrder[3], mountRc88(t, in[t], local[t], trace[t]))

\* line 93: mountFns[mountType] != nil
IsRegistered(f) == f # Nil

\* line 93, else line 111
mountRc93(t) ==
    /\ At(t, "mountRc93")
    /\ \E f \in FnsReads(t, local[t].mountType) :
          IF IsRegistered(f)
          THEN Step(t, "mountRc94", local[t], trace[t])
          ELSE Return(t, ReturnErr(ErrInvalidMountType))
    /\ UNCHANGED <<mountFns, mountFnsMutex, liveMounts, liveMountsMutex,
                   mounts, clock, crashed, lastOp>>
    /\ UNCHANGED Frame

\* line 94: mountFns[mountType](fdst, mountPoint) is called
mountRc94(t) ==
    /\ At(t, "mountRc94")
    /\ \E f \in FnsReads(t, local[t].mountType) :
          IF f # Nil
          THEN Step(t, "mountRc94call", local[t],
                    [trace[t] EXCEPT !.called = f, !.calledAs = local[t].mountType])
          ELSE Return(t, ReturnErr(Panic))
    /\ UNCHANGED <<mountFns, mountFnsMutex, liveMounts, liveMountsMutex,
                   mounts, clock, crashed, lastOp>>
    /\ UNCHANGED Frame

\* line 94: the mount function returns: a new mount and the function that
\* unmounts it, or nil and an error
MountFnReturns(t) ==
    /\ At(t, "mountRc94call")
    /\ \/ /\ mounts' = Append(mounts, [MountPoint |-> local[t].mountPoint,
                                       mounted |-> TRUE, calls |-> 0])
          /\ Step(t, "mountRc95",
                  [local[t] EXCEPT !.unmountFn = Len(mounts) + 1, !.err = Nil],
                  trace[t])
       \/ /\ UNCHANGED mounts
          /\ Step(t, "mountRc95",
                  [local[t] EXCEPT !.unmountFn = NilUnmountFn, !.err = ErrMount],
                  trace[t])
    /\ UNCHANGED <<mountFns, mountFnsMutex, liveMounts, liveMountsMutex,
                   clock, crashed, lastOp>>
    /\ UNCHANGED Frame

\* line 95: liveMountsMutex.Lock()
mountRc95(t) ==
    /\ At(t, "mountRc95")
    /\ MutexFree(liveMountsMutex)
    /\ liveMountsMutex' = t
    /\ Step(t, "mountRc97", local[t], trace[t])
    /\ UNCHANGED <<mountFns, mountFnsMutex, liveMounts,
                   mounts, clock, crashed, lastOp>>
    /\ UNCHANGED Frame

\* lines 97-102: the MountInfo stored
NewMountInfo(unmountFn, now, fdst, mountPoint) ==
    [unmountFn |-> unmountFn, MountedOn |-> now, Fs |-> FsName(fdst),
     MountPoint |-> mountPoint]

\* faulty variant: the entry is stored only when the mount function succeeded
StoreLiveMountIfMounted(live, l, now) ==
    IF l.err = Nil
    THEN MapPut(live, l.mountPoint, NewMountInfo(l.unmountFn, now, l.fdst, l.mountPoint))
    ELSE live

\* lines 97-102: liveMounts[mountPoint] = MountInfo{...}, whatever err is
StoreLiveMount(live, l, now) ==
    MapPut(live, l.mountPoint, NewMountInfo(l.unmountFn, now, l.fdst, l.mountPoint))

\* lines 104-109: the error of the mount function is what mountRc returns
MountRcResult(l) == ReturnErr(l.err)

\* lines 97-109: the store, liveMountsMutex.Unlock(), return err
mountRc97(t) ==
    /\ At(t, "mountRc97")
    /\ liveMounts' = StoreLiveMount(liveMounts, local[t], clock)
    /\ clock' = clock + 1
    /\ lastOp' = [lastOp EXCEPT ![local[t].mountPoint] = "stored"]
    /\ liveMountsMutex' = MutexUnlock(liveMountsMutex)
    /\ ReturnFrom(t, op[t], in[t], local[t], [trace[t] EXCEPT !.wrote = TRUE],
                  MountRcResult(local[t]))
    /\ UNCHANGED <<mountFns, mountFnsMutex, mounts, crashed>>
    /\ UNCHANGED Frame

(***************************************************************************)
(* unMountRc and performUnMount (lines 137-165).                           *)
(***************************************************************************)
\* lines 137-142
UnMountRcCall(t, D) ==
    /\ CanStart(t, D)
    /\ \E mp \in D.mountPoints :
          LET params == [NoParams EXCEPT !.mountPoint = mp]
          IN  /\ Begin(t, "unMountRc", params)
              /\ IF GetStringErr(params, "mountPoint") # Nil
                 THEN ReturnFrom(t, "unMountRc", params, NoLocals, StartTrace(t),
                                 ReturnErr(GetStringErr(params, "mountPoint")))
                 ELSE StepIn(t, "unMountRc", params, "performUnMount151",
                           [NoLocals EXCEPT !.mountPoint =
                               GetStringValue(params, "mountPoint")],
                           StartTrace(t))
    /\ UNCHANGED <<mountFns, mountFnsMutex, liveMounts, liveMountsMutex, mounts,
                   clock, crashed, lastOp>>

\* lines 151-152: liveMountsMutex.Lock(); the Unlock is deferred to the return
performUnMount151(t) ==
    /\ At(t, "performUnMount151")
    /\ MutexFree(liveMountsMutex)
    /\ liveMountsMutex' = t
    /\ Step(t, "performUnMount153", local[t], trace[t])
    /\ UNCHANGED <<mountFns, mountFnsMutex, liveMounts,
                   mounts, clock, crashed, lastOp>>
    /\ UNCHANGED Frame

\* faulty variant: ok is not looked at
LookupOkAlways(live, mountPoint) == TRUE

\* line 153: mountInfo, ok := liveMounts[mountPoint]
LookupOk(live, mountPoint) == MapHas(live, mountPoint)
LookupMountInfo(live, mountPoint) ==
    IF MapHas(live, mountPoint) THEN live[mountPoint] ELSE NoMountInfo

\* lines 153-156 and 161-163: the lookup; then "mount not found", or
\* mountInfo.unmountFn() is called; a nil unmountFn panics; the deferred
\* Unlock runs on both returns
performUnMount153(t) ==
    LET mountInfo == LookupMountInfo(liveMounts, local[t].mountPoint)
    IN  /\ At(t, "performUnMount153")
        /\ IF ~LookupOk(liveMounts, local[t].mountPoint)
           THEN /\ Return(t, ReturnErr(ErrMountNotFound))
                /\ liveMountsMutex' = MutexUnlock(liveMountsMutex)
                /\ UNCHANGED mounts
           ELSE IF mountInfo.unmountFn = NilUnmountFn
           THEN /\ Return(t, ReturnErr(Panic))
                /\ liveMountsMutex' = MutexUnlock(liveMountsMutex)
                /\ UNCHANGED mounts
           ELSE /\ mounts' = [mounts EXCEPT ![mountInfo.unmountFn].calls = @ + 1]
                /\ Step(t, "performUnMount156call",
                        [local[t] EXCEPT !.mountInfo = mountInfo],
                        [trace[t] EXCEPT !.unmountCalls = @ + 1])
                /\ UNCHANGED liveMountsMutex
        /\ UNCHANGED <<mountFns, mountFnsMutex, liveMounts, clock, crashed, lastOp>>
        /\ UNCHANGED Frame

\* faulty variant: the error of unmountFn is not looked at
UnmountFailedNever(e) == FALSE

\* lines 157-159: err != nil
UnmountFailed(e) == e # Nil

\* lines 158 and 164, and 143-146 of unMountRc: the error returned
UnMountResult(e) == ReturnErr(e)

\* faulty variant: the entry is not deleted
DeleteLiveMountSkipped(live, mountPoint) == live

\* line 160: delete(liveMounts, mountPoint)
DeleteLiveMount(live, mountPoint) == MapDelete(live, mountPoint)

\* lines 156-164: unmountFn returns nil after it unmounted, or an error; on
\* an error return it, else delete and return nil; the deferred Unlock
UnmountFnReturns(t) ==
    /\ At(t, "performUnMount156call")
    /\ \E e \in UnmountErrors \cup {Nil} :
          /\ mounts' = IF e = Nil
                       THEN [mounts EXCEPT ![local[t].mountInfo.unmountFn].mounted = FALSE]
                       ELSE mounts
          /\ IF UnmountFailed(e)
             THEN /\ ReturnFrom(t, op[t], in[t], [local[t] EXCEPT !.err = e],
                                trace[t], UnMountResult(e))
                  /\ lastOp' = [lastOp EXCEPT ![local[t].mountPoint] = "kept"]
                  /\ UNCHANGED liveMounts
             ELSE /\ liveMounts' = DeleteLiveMount(liveMounts, local[t].mountPoint)
                  /\ lastOp' = [lastOp EXCEPT ![local[t].mountPoint] = "deleted"]
                  /\ ReturnFrom(t, op[t], in[t], [local[t] EXCEPT !.err = e],
                                [trace[t] EXCEPT !.wrote = TRUE], UnMountResult(Nil))
    /\ liveMountsMutex' = MutexUnlock(liveMountsMutex)
    /\ UNCHANGED <<mountFns, mountFnsMutex, clock, crashed>>
    /\ UNCHANGED Frame

(***************************************************************************)
(* mountTypesRc (lines 190-201).                                           *)
(***************************************************************************)
MountTypesRcCall(t, D) ==
    /\ CanStart(t, D)
    /\ Begin(t, "mountTypesRc", NoParams)
    /\ StepIn(t, "mountTypesRc", NoParams, "mountTypesRc192", NoLocals, StartTrace(t))
    /\ UNCHANGED <<mountFns, mountFnsMutex, liveMounts, liveMountsMutex, mounts,
                   clock, crashed, lastOp>>

\* line 192: mountFnsMutex.Lock()
mountTypesRc192(t) ==
    /\ At(t, "mountTypesRc192")
    /\ MutexFree(mountFnsMutex)
    /\ mountFnsMutex' = t
    /\ Step(t, "mountTypesRc193", local[t], trace[t])
    /\ UNCHANGED <<mountFns, liveMounts, liveMountsMutex,
                   mounts, clock, crashed, lastOp>>
    /\ UNCHANGED Frame

\* faulty variant: the list is returned as the range built it
MountTypesUnsorted(mountTypes) == mountTypes

\* lines 197-200: sort.Strings(mountTypes), the list returned
MountTypesResult(mountTypes) == SortStrings(mountTypes)

\* lines 193-200: the keys in the order the range visits them, Unlock, sort
mountTypesRc193(t) ==
    /\ At(t, "mountTypesRc193")
    /\ \E order \in RangeOrders(mountFns) :
          Return(t, ReturnList(MountTypesResult(order)))
    /\ mountFnsMutex' = MutexUnlock(mountFnsMutex)
    /\ UNCHANGED <<mountFns, liveMounts, liveMountsMutex,
                   mounts, clock, crashed, lastOp>>
    /\ UNCHANGED Frame

(***************************************************************************)
(* listMountsRc (lines 223-233).                                           *)
(***************************************************************************)
ListMountsRcCall(t, D) ==
    /\ CanStart(t, D)
    /\ Begin(t, "listMountsRc", NoParams)
    /\ StepIn(t, "listMountsRc", NoParams, "listMountsRc225", NoLocals, StartTrace(t))
    /\ UNCHANGED <<mountFns, mountFnsMutex, liveMounts, liveMountsMutex, mounts,
                   clock, crashed, lastOp>>

\* line 225: liveMountsMutex.Lock()
listMountsRc225(t) ==
    /\ At(t, "listMountsRc225")
    /\ MutexFree(liveMountsMutex)
    /\ liveMountsMutex' = t
    /\ Step(t, "listMountsRc226", local[t], trace[t])
    /\ UNCHANGED <<mountFns, mountFnsMutex, liveMounts,
                   mounts, clock, crashed, lastOp>>
    /\ UNCHANGED Frame

\* lines 226-228: the keys the range has still to visit, mountTypes holding
\* the values of those it visited
RangeRest(live, mountTypes) ==
    DOMAIN live \ {mountTypes[i].MountPoint : i \in 1..Len(mountTypes)}

\* line 227: mountTypes = append(mountTypes, a)
ListedMounts(mountTypes, a) == Append(mountTypes, a)

\* faulty variant: an empty list is returned
ListMountsResultEmpty(mountTypes) == ReturnList(<<>>)

\* lines 230-232: rc.Params{"mountPoints": mountTypes}, nil
ListMountsResult(mountTypes) == ReturnList(mountTypes)

\* lines 226-232: the range visits one more key, in any order; after the
\* last one, or at once when the map is empty, Unlock and return
listMountsRc226(t) ==
    /\ At(t, "listMountsRc226")
    /\ IF RangeRest(liveMounts, local[t].mountTypes) = {}
       THEN /\ Return(t, ListMountsResult(local[t].mountTypes))
            /\ liveMountsMutex' = MutexUnlock(liveMountsMutex)
       ELSE \E k \in RangeRest(liveMounts, local[t].mountTypes) :
               LET mountTypes == ListedMounts(local[t].mountTypes, liveMounts[k])
               IN  IF RangeRest(liveMounts, mountTypes) = {}
                   THEN /\ ReturnFrom(t, op[t], in[t],
                                      [local[t] EXCEPT !.mountTypes = mountTypes],
                                      trace[t], ListMountsResult(mountTypes))
                        /\ liveMountsMutex' = MutexUnlock(liveMountsMutex)
                   ELSE /\ Step(t, "listMountsRc226",
                                [local[t] EXCEPT !.mountTypes = mountTypes], trace[t])
                        /\ UNCHANGED liveMountsMutex
    /\ UNCHANGED <<mountFns, mountFnsMutex, liveMounts,
                   mounts, clock, crashed, lastOp>>
    /\ UNCHANGED Frame

(***************************************************************************)
(* The end of a call.                                                      *)
(***************************************************************************)
\* the caller has the returned values: the frame of the call is gone
Returned(t) ==
    /\ At(t, "return")
    /\ pc' = [pc EXCEPT ![t] = "idle"]
    /\ op' = [op EXCEPT ![t] = "none"]
    /\ in' = [in EXCEPT ![t] = NoParams]
    /\ local' = [local EXCEPT ![t] = NoLocals]
    /\ trace' = [trace EXCEPT ![t] = NoTrace]
    /\ ret' = [ret EXCEPT ![t] = NoReturn]
    /\ UNCHANGED <<mountFns, mountFnsMutex, liveMounts, liveMountsMutex,
                   mounts, clock, crashed, lastOp>>
    /\ UNCHANGED Frame

(***************************************************************************)
(* The specification.                                                      *)
(***************************************************************************)
\* one call at a time
Next ==
    \E t \in Threads :
        \/ AddRcCall(t, Calls) \/ AddRc37(t) \/ AddRc39(t)
        \/ MountRcCall(t, Calls) \/ mountRc78(t) \/ mountRc80(t) \/ mountRc82(t)
        \/ mountRc93(t) \/ mountRc94(t)
        \/ MountFnReturns(t) \/ mountRc95(t) \/ mountRc97(t)
        \/ UnMountRcCall(t, Calls) \/ performUnMount151(t) \/ performUnMount153(t)
        \/ UnmountFnReturns(t)
        \/ MountTypesRcCall(t, Calls) \/ mountTypesRc192(t) \/ mountTypesRc193(t)
        \/ ListMountsRcCall(t, Calls) \/ listMountsRc225(t) \/ listMountsRc226(t)
        \/ Returned(t)

Spec == Init /\ [][Next]_vars

\* calls served concurrently
NextConcurrent ==
    \E t \in Threads :
        \/ AddRcCall(t, ConcurrentCalls) \/ AddRc37(t) \/ AddRc39(t)
        \/ MountRcCall(t, ConcurrentCalls)
        \/ mountRc78(t) \/ mountRc80(t) \/ mountRc82(t)
        \/ mountRc93(t) \/ mountRc94(t) \/ FatalMapRace(t)
        \/ MountFnReturns(t) \/ mountRc95(t) \/ mountRc97(t)
        \/ UnMountRcCall(t, ConcurrentCalls)
        \/ performUnMount151(t) \/ performUnMount153(t) \/ UnmountFnReturns(t)
        \/ MountTypesRcCall(t, ConcurrentCalls)
        \/ mountTypesRc192(t) \/ mountTypesRc193(t)
        \/ ListMountsRcCall(t, ConcurrentCalls)
        \/ listMountsRc225(t) \/ listMountsRc226(t)
        \/ Returned(t)

SpecConcurrent == InitConcurrent /\ [][NextConcurrent]_vars

\* the steps goroutine t takes inside a call, the calls it makes to the mount
\* function and to unmountFn returning
ThreadStep(t) ==
    \/ AddRc37(t) \/ AddRc39(t)
    \/ mountRc78(t) \/ mountRc80(t) \/ mountRc82(t) \/ mountRc93(t) \/ mountRc94(t)
    \/ MountFnReturns(t) \/ mountRc95(t) \/ mountRc97(t)
    \/ performUnMount151(t) \/ performUnMount153(t) \/ UnmountFnReturns(t)
    \/ mountTypesRc192(t) \/ mountTypesRc193(t)
    \/ listMountsRc225(t) \/ listMountsRc226(t)
    \/ Returned(t)

\* calls served concurrently, every goroutine scheduled again and again: a
\* goroutine that can take a step does not wait for ever
SpecFair ==
    InitConcurrent /\ [][NextConcurrent]_vars /\ \A t \in Threads : WF_vars(ThreadStep(t))

(***************************************************************************)
(* Notions the properties use.                                             *)
(***************************************************************************)
\* mount point p is mounted by this process: a mount function mounted it and
\* the unmountFn of that mount has not unmounted it
Mounted(p) ==
    \E i \in 1..Len(mounts) : mounts[i].MountPoint = p /\ mounts[i].mounted

\* no goroutine is inside a call
Quiescent == \A t \in Threads : ~Running(t)

\* goroutine t stands at the return of function o
Returns(t, o) == pc[t] = "return" /\ op[t] = o

\* the documented priority of the mount types (help text, line 52)
Priority == <<"mount", "cmount", "mount2">>

\* the first name of Priority that is registered in fns, or "" if none is
FirstRegistered(fns) ==
    IF \E i \in 1..Len(Priority) : MapHas(fns, Priority[i])
    THEN Priority[CHOOSE i \in 1..Len(Priority) :
                     /\ MapHas(fns, Priority[i])
                     /\ \A j \in 1..(i - 1) : ~MapHas(fns, Priority[j])]
    ELSE ""

\* the elements of a sequence
Range(seq) == {seq[i] : i \in 1..Len(seq)}

(***************************************************************************)
(* C1.  Whenever no call is running, liveMounts has an entry for a mount   *)
(* point if and only if that mount point is mounted by this process.       *)
(* The code violates it: mountRc stores the entry also when the mount      *)
(* function failed (lines 94-103).                                         *)
(***************************************************************************)
C1_RecordIffMounted ==
    Quiescent => \A p \in MountPoints : MapHas(liveMounts, p) <=> Mounted(p)

(***************************************************************************)
(* C2.  As claimed: when unMountRc(P) is the first call to use             *)
(* liveMounts[P] after a mountRc(P) whose mount function succeeded, then   *)
(* at its return liveMounts has no entry for P and the unmountFn of that   *)
(* mount has been called exactly once.                                     *)
(***************************************************************************)
C2_RoundTripAnyUnmount ==
    [][\A t \in Threads :
          (/\ pc[t] = "performUnMount156call"
           /\ pc'[t] = "return"
           /\ lastOp[local[t].mountPoint] = "stored")
          => /\ ~MapHas(liveMounts', local[t].mountPoint)
             /\ mounts'[local[t].mountInfo.unmountFn].calls = 1]_vars

(***************************************************************************)
(* C2, amended.  The same, for an unMountRc(P) that returns nil: the entry *)
(* for P is gone, the unmountFn of the mount has been called exactly once  *)
(* and the mount point is unmounted.                                       *)
(***************************************************************************)
C2_RoundTrip ==
    [][\A t \in Threads :
          (/\ pc[t] = "performUnMount156call"
           /\ pc'[t] = "return"
           /\ lastOp[local[t].mountPoint] = "stored"
           /\ ret'[t].err = Nil)
          => /\ ~MapHas(liveMounts', local[t].mountPoint)
             /\ mounts'[local[t].mountInfo.unmountFn].calls = 1
             /\ ~mounts'[local[t].mountInfo.unmountFn].mounted]_vars

C2_Witness ==
    \E t \in Threads :
        /\ Returns(t, "unMountRc")
        /\ ret[t].err = Nil
        /\ local[t].mountInfo.unmountFn # NilUnmountFn
        /\ mounts[local[t].mountInfo.unmountFn].calls = 1
        /\ ~MapHas(liveMounts, local[t].mountPoint)

(***************************************************************************)
(* C3.  At most one goroutine stands at a line that reads or writes        *)
(* liveMounts, and that goroutine holds liveMountsMutex; in particular     *)
(* while a goroutine is in performUnMount between the lookup and the       *)
(* return, no other goroutine is at such a line.                           *)
(***************************************************************************)
LiveMountsLines ==
    {"mountRc97", "performUnMount153", "performUnMount156call", "listMountsRc226"}

C3_MutualExclusion ==
    /\ Cardinality({t \in Threads : pc[t] \in LiveMountsLines}) <= 1
    /\ \A t \in Threads : pc[t] \in LiveMountsLines <=> liveMountsMutex = t

\* an unmountFn is running for a mount point, and another call for the same
\* mount point waits for liveMountsMutex
C3_Witness ==
    \E t, u \in Threads :
        /\ pc[t] = "performUnMount156call"
        /\ pc[u] \in {"mountRc95", "performUnMount151"}
        /\ local[u].mountPoint = local[t].mountPoint

(***************************************************************************)
(* C4.  When the unmountFn of the entry found for P returns: on an error,  *)
(* unMountRc returns that error and liveMounts is unchanged, the entry for *)
(* P included; on nil, unMountRc returns nil, the entry for P is gone and  *)
(* the entries of the other mount points are unchanged.                    *)
(***************************************************************************)
C4_UnmountOutcome ==
    [][\A t \in Threads :
          (pc[t] = "performUnMount156call" /\ pc'[t] = "return")
          => IF local'[t].err # Nil
             THEN /\ ret'[t].err = local'[t].err
                  /\ liveMounts' = liveMounts
                  /\ MapHas(liveMounts', local[t].mountPoint)
                  /\ liveMounts'[local[t].mountPoint] = local[t].mountInfo
             ELSE /\ ret'[t].err = Nil
                  /\ ~MapHas(liveMounts', local[t].mountPoint)
                  /\ \A q \in MountPoints \ {local[t].mountPoint} :
                        /\ MapHas(liveMounts', q) <=> MapHas(liveMounts, q)
                        /\ MapHas(liveMounts, q) => liveMounts'[q] = liveMounts[q]]_vars

\* an unMountRc that succeeds on the second call of the unmountFn, with an
\* entry for another mount point left in place
C4_Witness ==
    \E t \in Threads :
        /\ Returns(t, "unMountRc")
        /\ ret[t].err = Nil
        /\ local[t].mountInfo.unmountFn # NilUnmountFn
        /\ mounts[local[t].mountInfo.unmountFn].calls = 2
        /\ ~MapHas(liveMounts, local[t].mountPoint)

(***************************************************************************)
(* C5.  unMountRc with a mountPoint returns nil, "mount not found" or the  *)
(* error of the unmountFn, and nothing else.  The code violates it: the    *)
(* entry a failed mount left has a nil unmountFn, and calling it panics.   *)
(***************************************************************************)
C5_UnmountOutcomes ==
    \A t \in Threads :
        (Returns(t, "unMountRc") /\ in[t].mountPoint # Absent)
        => ret[t].err \in {Nil, ErrMountNotFound} \cup UnmountErrors

(***************************************************************************)
(* C6.  When unMountRc(P) looks P up and the last call that used           *)
(* liveMounts[P] was an unMountRc(P) that deleted the entry, or there was  *)
(* no such call, it returns "mount not found", calls no unmountFn and      *)
(* leaves liveMounts unchanged.                                            *)
(***************************************************************************)
C6_NotFound ==
    [][\A t \in Threads :
          (/\ pc[t] = "performUnMount153"
           /\ pc'[t] # pc[t]
           /\ lastOp[local[t].mountPoint] \in {"deleted", "none"})
          => /\ pc'[t] = "return"
             /\ ret'[t].err = ErrMountNotFound
             /\ trace'[t].unmountCalls = 0
             /\ UNCHANGED <<liveMounts, mounts>>]_vars

\* the second of two unMountRc(P), the first of which deleted the entry
C6_Witness ==
    \E t \in Threads :
        /\ Returns(t, "unMountRc")
        /\ ret[t].err = ErrMountNotFound
        /\ lastOp[local[t].mountPoint] = "deleted"
        /\ Len(mounts) > 0

(***************************************************************************)
(* C7.  mountRc with a mountPoint, a source that resolves and a non-empty  *)
(* mountType that is not registered returns the "not registered" error,    *)
(* calls no mount function and does not write liveMounts.                  *)
(***************************************************************************)
C7_UnregisteredRejected ==
    \A t \in Threads :
        (/\ Returns(t, "mountRc")
         /\ in[t].mountPoint # Absent
         /\ in[t].mountType \in MountTypeNames
         /\ in[t].fs = "remoteA:"
         /\ ~MapHas(mountFns, in[t].mountType))
        => /\ ret[t].err = ErrInvalidMountType
           /\ trace[t].called = Nil
           /\ ~trace[t].wrote

\* "nfsmount" is asked for, and only the three others are registered
C7_Witness ==
    \E t \in Threads :
        /\ Returns(t, "mountRc")
        /\ in[t].mountType = "nfsmount"
        /\ in[t].fs = "remoteA:"
        /\ DOMAIN mountFns = {"mount", "cmount", "mount2"}
        /\ ret[t].err = ErrInvalidMountType

(***************************************************************************)
(* C8.  mountRc with a mountPoint, a source that resolves and no or an     *)
(* empty mountType calls the mount function registered under the first of  *)
(* "mount", "cmount", "mount2" that is registered; if none of them is, it  *)
(* returns the "not registered" error and calls no mount function.         *)
(***************************************************************************)
C8_FallbackSelection ==
    \A t \in Threads :
        (/\ Returns(t, "mountRc")
         /\ in[t].mountPoint # Absent
         /\ in[t].mountType \in {Absent, ""}
         /\ in[t].fs = "remoteA:")
        => IF FirstRegistered(mountFns) = ""
           THEN ret[t].err = ErrInvalidMountType /\ trace[t].called = Nil
           ELSE /\ trace[t].calledAs = FirstRegistered(mountFns)
                /\ trace[t].called = mountFns[FirstRegistered(mountFns)]
                /\ ret[t].err \in {Nil, ErrMount}

\* only "cmount" of the three is registered, and it is the one called
C8_Witness ==
    \E t \in Threads :
        /\ Returns(t, "mountRc")
        /\ in[t].mountType = Absent
        /\ DOMAIN mountFns = {"cmount", "nfsmount"}
        /\ trace[t].calledAs = "cmount"

(***************************************************************************)
(* C9.  mountTypesRc returns no error and the keys of mountFns, each once, *)
(* in lexicographic order, whatever order the range visited them in:       *)
(* "cmount", "mount", "mount2" when these three are registered, and the    *)
(* empty list when none is.                                                *)
(***************************************************************************)
C9_SortedTypes ==
    \A t \in Threads :
        Returns(t, "mountTypesRc")
        => /\ ret[t].err = Nil
           /\ ret[t].payload
           /\ Range(ret[t].list) = DOMAIN mountFns
           /\ Len(ret[t].list) = Cardinality(DOMAIN mountFns)
           /\ \A i, j \in 1..Len(ret[t].list) :
                 i < j => StringLess(ret[t].list[i], ret[t].list[j])
           /\ DOMAIN mountFns = {"mount2", "mount", "cmount"}
                 => ret[t].list = <<"cmount", "mount", "mount2">>
           /\ DOMAIN mountFns = {} => ret[t].list = <<>>

C9_Witness ==
    \E t \in Threads :
        /\ Returns(t, "mountTypesRc")
        /\ ret[t].list = <<"cmount", "mount", "mount2", "nfsmount">>

(***************************************************************************)
(* C10.  No step of a mountRc without mountPoint or with a source that     *)
(* does not resolve, and no step of an unMountRc without mountPoint,       *)
(* changes mountFns or liveMounts or calls a mount function or an          *)
(* unmountFn; the call returns the error of the parameter or of rc.GetFs.  *)
(***************************************************************************)
C10_EarlyFailure ==
    [][\A t \in Threads :
          (/\ pc'[t] # pc[t]
           /\ \/ /\ op'[t] = "mountRc"
                 /\ in'[t].mountPoint = Absent \/ in'[t].fs = "nosuch:"
              \/ /\ op'[t] = "unMountRc"
                 /\ in'[t].mountPoint = Absent)
          => /\ UNCHANGED <<mountFns, liveMounts, mounts>>
             /\ trace'[t].called = Nil
             /\ trace'[t].unmountCalls = 0
             /\ pc'[t] \in {"mountRc78", "mountRc80", "mountRc82", "return"}
             /\ pc'[t] = "return"
                   => ret'[t].err = IF in'[t].mountPoint = Absent
                                    THEN ErrMissingParameter ELSE ErrGetFs]_vars

\* a mountRc whose source does not resolve returns, an entry being in place
C10_Witness ==
    \E t \in Threads :
        /\ Returns(t, "mountRc")
        /\ in[t].fs = "nosuch:"
        /\ in[t].mountPoint # Absent
        /\ ret[t].err = ErrGetFs
        /\ DOMAIN liveMounts # {}

(***************************************************************************)
(* C11.  No step of mountTypesRc or listMountsRc changes mountFns,         *)
(* liveMounts or a mount; both return a nil error and a list: listMountsRc *)
(* one MountInfo for each entry of liveMounts and nothing else, so that    *)
(* two calls between which liveMounts is not written return the same set,  *)
(* and the empty list when liveMounts is empty; mountTypesRc the keys of   *)
(* mountFns.                                                               *)
(***************************************************************************)
C11_ListingPure ==
    [][\A t \in Threads :
          (/\ <<pc[t], local[t]>>' # <<pc[t], local[t]>>
           /\ op'[t] \in {"mountTypesRc", "listMountsRc"})
          => /\ UNCHANGED <<mountFns, liveMounts, mounts>>
             /\ pc'[t] = "return"
                   => /\ ret'[t].err = Nil
                      /\ ret'[t].payload
                      /\ op'[t] = "listMountsRc"
                            => /\ Range(ret'[t].list) =
                                     {liveMounts[p] : p \in DOMAIN liveMounts}
                               /\ Len(ret'[t].list) = Cardinality(DOMAIN liveMounts)
                      /\ op'[t] = "mountTypesRc"
                            => /\ Range(ret'[t].list) = DOMAIN mountFns
                               /\ Len(ret'[t].list) = Cardinality(DOMAIN mountFns)]_vars

\* listMountsRc returns the entries of two mount points
C11_Witness ==
    \E t \in Threads :
        /\ Returns(t, "listMountsRc")
        /\ ret[t].err = Nil
        /\ Len(ret[t].list) = 2
        /\ Range(ret[t].list) = {liveMounts[p] : p \in MountPoints}

(***************************************************************************)
(* C12.  As claimed: no unmountFn a mount function returned is called more *)
(* than once.                                                              *)
(***************************************************************************)
C12_TeardownAtMostOnce ==
    \A i \in 1..Len(mounts) : mounts[i].calls <= 1

(***************************************************************************)
(* C12, amended.  An unmountFn that a mount function returned is called    *)
(* only by an unMountRc of the mount point whose liveMounts entry holds    *)
(* it, never while another call of it is running and never again once it   *)
(* returned nil; after it returned an error the entry stays, and a later   *)
(* unMountRc of that mount point calls it again.                           *)
(***************************************************************************)
C12_TeardownSingleUse ==
    [][\A i \in 1..Len(mounts) :
          mounts'[i].calls > mounts[i].calls
          => /\ mounts'[i].calls = mounts[i].calls + 1
             /\ mounts[i].mounted
             /\ \A u \in Threads :
                   pc[u] = "performUnMount156call" => local[u].mountInfo.unmountFn # i
             /\ \E t \in Threads :
                   /\ op[t] = "unMountRc"
                   /\ pc[t] = "performUnMount153"
                   /\ pc'[t] = "performUnMount156call"
                   /\ in[t].mountPoint = mounts[i].MountPoint
                   /\ MapHas(liveMounts, in[t].mountPoint)
                   /\ liveMounts[in[t].mountPoint].unmountFn = i]_vars

\* an unmountFn returned nil on its second call
C12_Witness ==
    \E i \in 1..Len(mounts) : mounts[i].calls = 2 /\ ~mounts[i].mounted

(***************************************************************************)
(* C13.  A goroutine that stands at a line that reads or writes mountFns   *)
(* holds mountFnsMutex, so no read of mountFns happens while AddRc is at   *)
(* its write; and no goroutine holds mountFnsMutex while a mount function  *)
(* or an unmountFn runs.  The code violates it: mountRc reads mountFns at  *)
(* lines 78, 80, 82, 93 and 94 without the mutex.                          *)
(***************************************************************************)
C13_RegistryLocked ==
    /\ \A t \in Threads :
          pc[t] \in FnsReadLines \cup {"AddRc39", "mountTypesRc193"}
          => mountFnsMutex = t
    /\ \A t \in Threads : pc[t] \in FnsReadLines => WriterOf(t) = {}
    /\ \A t \in Threads :
          pc[t] \in {"mountRc94call", "performUnMount156call"} => mountFnsMutex # t

(***************************************************************************)
(* C14.  As claimed: a mountRc or unMountRc of a mount point never waits   *)
(* for liveMountsMutex while a mountRc or unMountRc of another mount point *)
(* holds it.                                                               *)
(***************************************************************************)
C14_Independent ==
    \A t, u \in Threads :
        (/\ t # u
         /\ pc[u] \in {"mountRc95", "performUnMount151"}
         /\ liveMountsMutex = t
         /\ op[t] \in {"mountRc", "unMountRc"})
        => local[t].mountPoint = local[u].mountPoint

\* the lines that lock a mutex
LiveMountsLockLines == {"mountRc95", "performUnMount151", "listMountsRc225"}
MountFnsLockLines == {"AddRc37", "mountTypesRc192"}

(***************************************************************************)
(* C14, amended.  A call waits for another call only at a Lock, and only   *)
(* while the mutex is held: everywhere else, the call of the mount         *)
(* function included, its next step can be taken whatever the other        *)
(* goroutine does.  While an unmountFn runs, its performUnMount holds      *)
(* liveMountsMutex, and a mountRc at line 95 or a performUnMount at line   *)
(* 151 waits, for whatever mount point it is.                              *)
(***************************************************************************)
C14_WaitsOnlyForLock ==
    /\ \A u \in Threads :
          (Running(u) /\ ~crashed)
          => (ENABLED ThreadStep(u)
                <=> /\ pc[u] \in LiveMountsLockLines => liveMountsMutex = NoThread
                    /\ pc[u] \in MountFnsLockLines => mountFnsMutex = NoThread)
    /\ \A t, u \in Threads :
          (/\ ~crashed
           /\ pc[t] = "performUnMount156call"
           /\ pc[u] \in {"mountRc95", "performUnMount151"})
          => liveMountsMutex = t /\ ~ENABLED ThreadStep(u)

\* an unmountFn runs for one mount point, and an unMountRc of the other one
\* waits at line 151
C14_Witness ==
    \E t, u \in Threads :
        /\ pc[t] = "performUnMount156call"
        /\ pc[u] = "performUnMount151"
        /\ local[u].mountPoint # local[t].mountPoint

(***************************************************************************)
(* C15.  When the mount function called at line 94 returns an error,       *)
(* mountRc goes on to lines 95-103: it stores under mountPoint a MountInfo *)
(* with the unmountFn the mount function returned (nil), the name of the   *)
(* Fs and the time of the store, replacing the entry that was there and    *)
(* leaving the others alone, and then returns that error.                  *)
(***************************************************************************)
C15_FailedMountRecords ==
    [][\A t \in Threads :
          /\ (pc[t] = "mountRc94call" /\ pc'[t] # pc[t]) => pc'[t] = "mountRc95"
          /\ (pc[t] = "mountRc95" /\ pc'[t] # pc[t])
                => pc'[t] = "mountRc97" /\ local'[t] = local[t]
          /\ (pc[t] = "mountRc97" /\ pc'[t] # pc[t] /\ local[t].err # Nil)
                => /\ local[t].err = ErrMount
                   /\ local[t].unmountFn = NilUnmountFn
                   /\ DOMAIN liveMounts' = DOMAIN liveMounts \cup {in[t].mountPoint}
                   /\ liveMounts'[in[t].mountPoint] =
                         [unmountFn |-> NilUnmountFn, MountPoint |-> in[t].mountPoint,
                          MountedOn |-> clock, Fs |-> "remoteA"]
                   /\ \A q \in DOMAIN liveMounts \ {in[t].mountPoint} :
                         liveMounts'[q] = liveMounts[q]
                   /\ pc'[t] = "return"
                   /\ ret'[t].err = ErrMount
                   /\ ~ret'[t].payload]_vars

\* a mountRc whose mount function failed returns, having replaced the entry
\* of a mount that is still in place
C15_Witness ==
    \E t \in Threads :
        /\ Returns(t, "mountRc")
        /\ ret[t].err = ErrMount
        /\ Mounted(in[t].mountPoint)
        /\ MapHas(liveMounts, in[t].mountPoint)
        /\ liveMounts[in[t].mountPoint].unmountFn = NilUnmountFn

(***************************************************************************)
(* C16.  No goroutine holds mountFnsMutex and liveMountsMutex at once, and *)
(* none stands at the Lock of one while it holds the other; so two         *)
(* goroutines never wait for each other's mutex.                           *)
(***************************************************************************)
C16_NoLockNesting ==
    /\ \A t \in Threads : ~(mountFnsMutex = t /\ liveMountsMutex = t)
    /\ \A t \in Threads : pc[t] \in LiveMountsLockLines => mountFnsMutex # t
    /\ \A t \in Threads : pc[t] \in MountFnsLockLines => liveMountsMutex # t
    /\ \A t \in Threads :
          pc[t] \in {"idle", "return"} => mountFnsMutex # t /\ liveMountsMutex # t
    /\ ~\E t, u \in Threads :
           /\ pc[t] \in LiveMountsLockLines /\ liveMountsMutex = u
           /\ pc[u] \in MountFnsLockLines /\ mountFnsMutex = t

\* both mutexes are held, by two goroutines
C16_Witness ==
    \E t, u \in Threads :
        /\ t # u
        /\ mountFnsMutex = t /\ pc[t] = "AddRc39"
        /\ liveMountsMutex = u /\ pc[u] = "performUnMount156call"

(***************************************************************************)
(* C17.  Under fair scheduling, with every call of a mount function and of *)
(* an unmountFn returning, every call that has started comes to a return   *)
(* of the handler, and at its return the goroutine holds no mutex.  The    *)
(* code violates it: an unMountRc that finds the entry of a failed mount   *)
(* ends in the panic of a nil func call instead of a return, and a mountRc *)
(* that reads mountFns while AddRc writes it can end the process.          *)
(***************************************************************************)
C17_Completion ==
    /\ \A t \in Threads :
          Running(t) ~> (pc[t] = "return" /\ ret[t].err # Panic)
    /\ [](\A t \in Threads :
            pc[t] = "return" => mountFnsMutex # t /\ liveMountsMutex # t)

(***************************************************************************)
(* C18.  Whatever mountRc and unMountRc calls run at the same time: from   *)
(* the Lock of listMountsRc to its return no step changes liveMounts, and  *)
(* the list returned holds one MountInfo for each mount point of           *)
(* liveMounts as it is at that time and nothing else; once returned, the   *)
(* list is not changed by later writes of liveMounts.                      *)
(***************************************************************************)
C18_AtomicSnapshot ==
    [][\A t \in Threads :
          /\ pc[t] = "listMountsRc226" => liveMounts' = liveMounts
          /\ (pc[t] = "listMountsRc226" /\ pc'[t] = "return")
                => /\ Range(ret'[t].list) = {liveMounts[p] : p \in DOMAIN liveMounts}
                   /\ Len(ret'[t].list) = Cardinality(DOMAIN liveMounts)
                   /\ \A i, j \in 1..Len(ret'[t].list) :
                         i # j => ret'[t].list[i].MountPoint # ret'[t].list[j].MountPoint
          /\ (pc[t] = "return" /\ pc'[t] = "return") => ret'[t] = ret[t]]_vars

\* listMountsRc has returned an entry, and a call that ran at the same time
\* has written liveMounts since
C18_Witness ==
    \E t \in Threads :
        /\ Returns(t, "listMountsRc")
        /\ Len(ret[t].list) >= 1
        /\ Range(ret[t].list) # {liveMounts[p] : p \in DOMAIN liveMounts}

(***************************************************************************)
(* C19.  AddRc(name, f) returns, and after its write mountFns[name] is f,  *)
(* whatever was registered under name before; the entries of the other     *)
(* names are unchanged; when name was registered with f already, mountFns  *)
(* is unchanged.  No step removes a key from mountFns, and only AddRc      *)
(* changes it.                                                             *)
(***************************************************************************)
C19_RegisterOverwrites ==
    [][/\ \A t \in Threads :
            (pc[t] = "AddRc39" /\ pc'[t] # pc[t])
            => /\ local[t].mountUtilName \in DOMAIN mountFns'
               /\ mountFns'[local[t].mountUtilName] = local[t].mountFunction
               /\ DOMAIN mountFns' = DOMAIN mountFns \cup {local[t].mountUtilName}
               /\ \A k \in DOMAIN mountFns \ {local[t].mountUtilName} :
                     mountFns'[k] = mountFns[k]
               /\ (/\ local[t].mountUtilName \in DOMAIN mountFns
                   /\ mountFns[local[t].mountUtilName] = local[t].mountFunction)
                     => mountFns' = mountFns
               /\ pc'[t] = "return"
               /\ ret'[t] = NoReturn
       /\ DOMAIN mountFns \subseteq DOMAIN mountFns'
       /\ mountFns' # mountFns => \E t \in Threads : pc[t] = "AddRc39"]_vars

\* AddRc has registered fnB under a name, the other names keeping fnA
C19_Witness ==
    \E t \in Threads :
        /\ Returns(t, "AddRc")
        /\ local[t].mountFunction = "fnB"
        /\ DOMAIN mountFns = MountTypeNames
        /\ \A k \in MountTypeNames :
              mountFns[k] = IF k = local[t].mountUtilName THEN "fnB" ELSE "fnA"

(***************************************************************************)
(* C20.  Every unmountFn that a mount function returned with a mount has   *)
(* been called, or is the unmountFn of the liveMounts entry of its mount   *)
(* point, or is held by its mountRc, which is about to store it.  The code *)
(* violates it: a second mountRc of the same mount point replaces the      *)
(* entry, and the unmountFn of the first mount is in no entry any more.    *)
(***************************************************************************)
C20_NoTeardownLost ==
    \A i \in 1..Len(mounts) :
        \/ mounts[i].calls >= 1
        \/ /\ MapHas(liveMounts, mounts[i].MountPoint)
           /\ liveMounts[mounts[i].MountPoint].unmountFn = i
        \/ \E t \in Threads :
              pc[t] \in {"mountRc95", "mountRc97"} /\ local[t].unmountFn = i

====
